---- MODULE Spec2Model ----
(***************************************************************************)
(* Financio: the compound-interest calculator of main.financio.py.         *)
(*                                                                         *)
(* calculate_compound_interest is modelled as an activation record         *)
(* (frame) that is stepped through the function's control flow; main is    *)
(* modelled as the interactive loop that reads the inputs, calls the       *)
(* function, stores the scenario and finally sorts the scenarios.          *)
(*                                                                         *)
(* Python floats are modelled as a binary floating-point format with       *)
(* round-to-nearest-even, gradual underflow, overflow to infinity and a    *)
(* NaN, with the significand and exponent widths reduced (Prec, FracBits,  *)
(* ExpSpan) so that the values can be enumerated.  A finite float is the   *)
(* integer number of quanta (units of 2^-FracBits) it is worth.            *)
(***************************************************************************)
EXTENDS Integers, Sequences, FiniteSets, TLC

\* ------------------------------------------------------------------------
\* Bounds of the model
\* ------------------------------------------------------------------------
\* significand bits of the float format (a double has 53)
Prec == 5
\* a quantum is 2^-FracBits: the spacing of the smallest floats
FracBits == 4
\* number of binades above the first one; beyond them a result overflows
ExpSpan == 7
\* largest number of years passed to calculate_compound_interest
MaxYears == 2
\* largest compounds_per_year passed by a direct caller
MaxCpy == 3
\* largest number of scenarios the user enters in main
MaxRounds == 2

\* ------------------------------------------------------------------------
\* Program constants
\* ------------------------------------------------------------------------
\* default value of the parameter compounds_per_year
DefaultCompounds == 12
\* the divisor 100.0 of the percentage conversion
Hundred == 100

\* ------------------------------------------------------------------------
\* Floating point
\* ------------------------------------------------------------------------
RECURSIVE Pow2(_)
Pow2(n) == IF n <= 0 THEN 1 ELSE 2 * Pow2(n - 1)

\* the float 1.0, in quanta
One == Pow2(FracBits)

\* the largest finite float
MaxFin == (Pow2(Prec) - 1) * Pow2(ExpSpan)

\* float('inf'), float('-inf') and float('nan')
Inf == MaxFin + 1
NegInf == -(MaxFin + 1)
NaN == -(MaxFin + 2)

IsNaN(x) == x = NaN
IsFinite(x) == x # NaN /\ x # Inf /\ x # NegInf

\* Python's comparison operators on floats: every comparison with NaN is False
FLt(a, b) == ~IsNaN(a) /\ ~IsNaN(b) /\ a < b
FLe(a, b) == ~IsNaN(a) /\ ~IsNaN(b) /\ a <= b
FEq(a, b) == ~IsNaN(a) /\ ~IsNaN(b) /\ a = b

\* the integer nearest to num/den, ties to the even one (num >= 0, den > 0)
RoundNearestEven(num, den) ==
    LET q == num \div den
        r == num % den
    IN  IF 2 * r < den THEN q
        ELSE IF 2 * r > den THEN q + 1
        ELSE IF q % 2 = 0 THEN q ELSE q + 1

\* the binade of a value whose integer part (in quanta) is q
RECURSIVE BinadeOf(_, _)
BinadeOf(q, e) ==
    IF e > ExpSpan \/ q < Pow2(Prec + e) THEN e ELSE BinadeOf(q, e + 1)

\* the float nearest to the exact value num/den quanta (num >= 0, den > 0)
Round(num, den) ==
    LET e == BinadeOf(num \div den, 0)
    IN  IF e > ExpSpan THEN Inf
        ELSE LET s == Pow2(e)
                 m == RoundNearestEven(num, den * s)
             IN  IF m * s > MaxFin THEN Inf ELSE m * s

\* whether the exact value of n quanta is a float
Representable(n) == n >= 0 /\ n <= MaxFin /\ Round(n, 1) = n

\* float(n) for an int n
IntToFloat(n) == IF n >= 0 THEN Round(n * One, 1) ELSE -Round((-n) * One, 1)

\* a + b on floats that are not negative
FAdd(a, b) ==
    IF IsNaN(a) \/ IsNaN(b) THEN NaN
    ELSE IF a = Inf \/ b = Inf THEN Inf
    ELSE Round(a + b, 1)

\* a * b on floats that are not negative; inf * 0 is nan
FMul(a, b) ==
    IF IsNaN(a) \/ IsNaN(b) THEN NaN
    ELSE IF (a = Inf /\ b = 0) \/ (a = 0 /\ b = Inf) THEN NaN
    ELSE IF a = Inf \/ b = Inf THEN Inf
    ELSE Round(a * b, One)

\* a / b on floats, a not negative, b finite and positive
FDiv(a, b) ==
    IF IsNaN(a) THEN NaN
    ELSE IF a = Inf THEN Inf
    ELSE Round(a * One, b)

\* ------------------------------------------------------------------------
\* State
\* ------------------------------------------------------------------------
VARIABLES
    frame,            \* activation record of calculate_compound_interest
    pc,               \* position of main
    principal,        \* main's locals
    annual_rate_percent,
    years,
    monthly_payment,
    year_list,
    balance_list,
    scenarios,
    rounds,           \* number of passes of main's loop that reached line 135
    memo              \* a completed direct call, kept to compare a later one

vars == <<frame, pc, principal, annual_rate_percent, years, monthly_payment,
          year_list, balance_list, scenarios, rounds, memo>>

mainVars == <<pc, principal, annual_rate_percent, years, monthly_payment,
              year_list, balance_list, scenarios, rounds>>

\* ------------------------------------------------------------------------
\* calculate_compound_interest
\* ------------------------------------------------------------------------
\* a list-valued variable that may hold None
PyNone == [none |-> TRUE, items |-> <<>>]
PyList(s) == [none |-> FALSE, items |-> s]

\* the error result (None, None)
NoneResult == [none |-> TRUE, year_list |-> <<>>, balances |-> <<>>]

\* no call is active; a call's locals are unbound until they are assigned
NoFrame ==
    [cpc |-> "none", principal |-> 0, annual_rate_percent |-> 0, years |-> 0,
     monthly_payment |-> 0, compounds_per_year |-> 0, rate_per_period |-> 0,
     yearly_balances |-> <<>>, current_balance |-> 0, total_periods |-> 0,
     periods_calculated |-> 0, year |-> 0, period |-> 0, ret |-> NoneResult]

\* the frame on entry to calculate_compound_interest(p, r, y, m, c)
Enter(p, r, y, m, c) ==
    [NoFrame EXCEPT !.cpc = "validate", !.principal = p,
                    !.annual_rate_percent = r, !.years = y,
                    !.monthly_payment = m, !.compounds_per_year = c]

\* line 22 without its test of years
NegativeInput_NoYears(f) ==
    \/ FLt(f.annual_rate_percent, 0)
    \/ FLt(f.principal, 0)
    \/ FLt(f.monthly_payment, 0)

\* the condition of line 22
NegativeInput(f) ==
    \/ FLt(f.annual_rate_percent, 0)
    \/ FLt(f.principal, 0)
    \/ f.years < 0
    \/ FLt(f.monthly_payment, 0)

\* the condition of line 26
BadFrequency(f) == f.compounds_per_year <= 0

\* lines 32-35
RatePerPeriod(rate, cpy) ==
    IF FEq(rate, 0) THEN 0
    ELSE FDiv(FDiv(rate, IntToFloat(Hundred)), IntToFloat(cpy))

\* line 37 with the list left empty
InitialBalances_Empty(p) == <<>>

\* line 37 with a list that outlives the call (a mutable default argument)
InitialBalances_Shared(p) == memo.ret.balances \o <<p>>

\* line 37
InitialBalances(p) == <<p>>

\* line 39 without the compounding frequency
TotalPeriods_NoFrequency(y, cpy) == y

\* line 39
TotalPeriods(y, cpy) == y * cpy

\* lines 46-49 without the contribution of line 49
PeriodStep_NoPayment(balance, rate, payment) ==
    LET interest == FMul(balance, rate)
    IN  FAdd(balance, interest)

\* lines 46-49: one compounding period
PeriodStep(balance, rate, payment) ==
    LET interest == FMul(balance, rate)
    IN  FAdd(FAdd(balance, interest), payment)

\* line 52 and line 57 with the limit reached one period early
LimitReached_OffByOne(done, total) == done + 1 >= total

\* line 52 and line 57
LimitReached(done, total) == done >= total

\* list(range(n))
Range(n) == [i \in 1..n |-> i - 1]

\* lines 22-28
Calc_Validate ==
    /\ frame.cpc = "validate"
    /\ frame' = IF NegativeInput(frame) \/ BadFrequency(frame)
                THEN [frame EXCEPT !.cpc = "return", !.ret = NoneResult]
                ELSE [frame EXCEPT !.cpc = "setup"]
    /\ UNCHANGED <<mainVars, memo>>

\* lines 32-41
Calc_Setup ==
    /\ frame.cpc = "setup"
    /\ frame' = [frame EXCEPT
                    !.rate_per_period =
                        RatePerPeriod(frame.annual_rate_percent,
                                      frame.compounds_per_year),
                    !.yearly_balances = InitialBalances(frame.principal),
                    !.current_balance = frame.principal,
                    !.total_periods =
                        TotalPeriods(frame.years, frame.compounds_per_year),
                    !.periods_calculated = 0,
                    !.year = 1,
                    !.cpc = "outer"]
    /\ UNCHANGED <<mainVars, memo>>

\* line 42: for year in range(1, years + 1)
Calc_Outer ==
    /\ frame.cpc = "outer"
    /\ frame' = IF frame.year <= frame.years
                THEN [frame EXCEPT !.period = 0, !.cpc = "inner"]
                ELSE [frame EXCEPT !.cpc = "finish"]
    /\ UNCHANGED <<mainVars, memo>>

\* lines 43-53: for _ in range(compounds_per_year), one pass of the body
Calc_Inner ==
    /\ frame.cpc = "inner"
    /\ frame' =
        IF frame.period >= frame.compounds_per_year
        THEN [frame EXCEPT !.cpc = "append"]
        ELSE LET done == frame.periods_calculated + 1
             IN  [frame EXCEPT
                     !.period = frame.period + 1,
                     !.periods_calculated = done,
                     !.current_balance =
                         PeriodStep(frame.current_balance,
                                    frame.rate_per_period,
                                    frame.monthly_payment),
                     !.cpc = IF LimitReached(done, frame.total_periods)
                             THEN "append" ELSE "inner"]
    /\ UNCHANGED <<mainVars, memo>>

\* lines 55-58
Calc_Append ==
    /\ frame.cpc = "append"
    /\ frame' =
        [frame EXCEPT
            !.yearly_balances = Append(frame.yearly_balances,
                                       frame.current_balance),
            !.year = IF LimitReached(frame.periods_calculated,
                                     frame.total_periods)
                     THEN frame.year ELSE frame.year + 1,
            !.cpc = IF LimitReached(frame.periods_calculated,
                                    frame.total_periods)
                    THEN "finish" ELSE "outer"]
    /\ UNCHANGED <<mainVars, memo>>

\* lines 61-66
Calc_Finish ==
    /\ frame.cpc = "finish"
    /\ LET full == Range(frame.years + 1)
           trimmed == IF Len(frame.yearly_balances) < Len(full)
                      THEN SubSeq(full, 1, Len(frame.yearly_balances))
                      ELSE full
       IN  frame' = [frame EXCEPT
                        !.ret = [none |-> FALSE, year_list |-> trimmed,
                                 balances |-> frame.yearly_balances],
                        !.cpc = "return"]
    /\ UNCHANGED <<mainVars, memo>>

Calc ==
    \/ Calc_Validate
    \/ Calc_Setup
    \/ Calc_Outer
    \/ Calc_Inner
    \/ Calc_Append
    \/ Calc_Finish

\* ------------------------------------------------------------------------
\* Direct calls of calculate_compound_interest
\* ------------------------------------------------------------------------
NoMemo == [set |-> FALSE, args |-> <<0, 0, 0, 0, 0>>, ret |-> NoneResult,
           before |-> FALSE, between |-> FALSE]

PrincipalArgs == {-One, 0, One, Pow2(Prec), MaxFin, Inf, NaN}
RateArgs == {-IntToFloat(5), 0, IntToFloat(Hundred)}
YearsArgs == (-1)..MaxYears
PaymentArgs == {-One, 0, 1, MaxFin}
CpyArgs == (-1)..MaxCpy

\* a caller passes any arguments
Call ==
    /\ frame.cpc = "none"
    /\ pc = "principal"
    /\ \E p \in PrincipalArgs, r \in RateArgs, y \in YearsArgs,
          m \in PaymentArgs, c \in CpyArgs :
            frame' = Enter(p, r, y, m, c)
    /\ UNCHANGED <<mainVars, memo>>

\* the caller takes the result
Return ==
    /\ frame.cpc = "return"
    /\ pc = "principal"
    /\ frame' = NoFrame
    /\ UNCHANGED <<mainVars, memo>>

Init ==
    /\ frame = NoFrame
    /\ pc = "principal"
    /\ principal = 0
    /\ annual_rate_percent = 0
    /\ years = 0
    /\ monthly_payment = 0
    /\ year_list = PyNone
    /\ balance_list = PyNone
    /\ scenarios = <<>>
    /\ rounds = 0
    /\ memo = NoMemo

NextCalc == Call \/ Calc \/ Return

SpecCalc == Init /\ [][NextCalc]_vars

\* ------------------------------------------------------------------------
\* Repeated direct calls, one of them kept for comparison
\* ------------------------------------------------------------------------
ArgsOf(f) ==
    <<f.principal, f.annual_rate_percent, f.years, f.monthly_payment,
      f.compounds_per_year>>

\* a caller passes arguments of a smaller choice
CallAgain ==
    /\ frame.cpc = "none"
    /\ pc = "principal"
    /\ \E p \in {One, Inf}, r \in {0, IntToFloat(Hundred)},
          y \in 0..MaxYears, m \in {0, 1}, c \in 0..(MaxCpy - 1) :
            frame' = Enter(p, r, y, m, c)
    /\ UNCHANGED <<mainVars, memo>>

\* the caller takes the result and keeps it
ReturnKept ==
    /\ frame.cpc = "return"
    /\ pc = "principal"
    /\ ~memo.set
    /\ memo' = [memo EXCEPT !.set = TRUE, !.args = ArgsOf(frame),
                            !.ret = frame.ret]
    /\ frame' = NoFrame
    /\ UNCHANGED mainVars

\* the caller takes the result and drops it
ReturnDropped ==
    /\ frame.cpc = "return"
    /\ pc = "principal"
    /\ memo' = IF memo.set THEN [memo EXCEPT !.between = TRUE]
               ELSE [memo EXCEPT !.before = TRUE]
    /\ frame' = NoFrame
    /\ UNCHANGED mainVars

NextTwice == CallAgain \/ Calc \/ ReturnKept \/ ReturnDropped

SpecTwice == Init /\ [][NextTwice]_vars

\* ------------------------------------------------------------------------
\* main
\* ------------------------------------------------------------------------
\* What the user types at a prompt: the text of an integer ("12", "-1"), of
\* another float ("1.5", "inf", "nan") or anything else.
Text(kind, val) == [kind |-> kind, val |-> val]

\* float(text): raises ValueError unless the text is a number
ParseFloat(t) ==
    [ok |-> t.kind # "junk",
     value |-> IF t.kind = "int" THEN IntToFloat(t.val)
               ELSE IF t.kind = "float" THEN t.val ELSE 0]

\* int(text): raises ValueError unless the text is an integer
ParseInt(t) ==
    [ok |-> t.kind = "int", value |-> IF t.kind = "int" THEN t.val ELSE 0]

\* get_float_input without the test value >= 0
GetFloatInput_NoCheck(t) ==
    LET r == ParseFloat(t)
    IN  [accepted |-> r.ok, value |-> r.value]

\* one pass of get_float_input's loop on the text typed
GetFloatInput(t) ==
    LET r == ParseFloat(t)
    IN  [accepted |-> r.ok /\ FLe(0, r.value), value |-> r.value]

\* one pass of get_int_input's loop on the text typed
GetIntInput(t) ==
    LET r == ParseInt(t)
    IN  [accepted |-> r.ok /\ r.value >= 0, value |-> r.value]

\* the texts typed at each prompt
TypedPrincipal ==
    {Text("int", 1), Text("int", -1), Text("float", Inf), Text("float", NaN),
     Text("junk", 0)}
TypedRate == {Text("int", 0), Text("int", Hundred), Text("int", -5)}
TypedYears ==
    {Text("int", y) : y \in (-1)..(MaxYears - 1)}
        \cup {Text("float", One + One \div 2), Text("junk", 0)}
TypedPayment == {Text("int", 1), Text("int", -1)}
\* the answers, stripped and lower-cased
TypedAnswer == {"yes", "y", "no", "n", "maybe"}

\* line 100
Main_Principal ==
    /\ pc = "principal"
    /\ frame.cpc = "none"
    /\ \E t \in TypedPrincipal :
          LET r == GetFloatInput(t)
          IN  IF r.accepted
              THEN principal' = r.value /\ pc' = "rate"
              ELSE UNCHANGED <<principal, pc>>
    /\ UNCHANGED <<frame, annual_rate_percent, years, monthly_payment,
                   year_list, balance_list, scenarios, rounds, memo>>

\* line 101
Main_Rate ==
    /\ pc = "rate"
    /\ \E t \in TypedRate :
          LET r == GetFloatInput(t)
          IN  IF r.accepted
              THEN annual_rate_percent' = r.value /\ pc' = "years"
              ELSE UNCHANGED <<annual_rate_percent, pc>>
    /\ UNCHANGED <<frame, principal, years, monthly_payment, year_list,
                   balance_list, scenarios, rounds, memo>>

\* lines 102-104
Main_Years ==
    /\ pc = "years"
    /\ \E t \in TypedYears :
          LET r == GetIntInput(t)
          IN  IF r.accepted
              THEN /\ years' = r.value
                   /\ monthly_payment' = 0
                   /\ pc' = "add_payment"
              ELSE UNCHANGED <<years, monthly_payment, pc>>
    /\ UNCHANGED <<frame, principal, annual_rate_percent, year_list,
                   balance_list, scenarios, rounds, memo>>

\* lines 105-114, but for the call of line 108
Main_AddPayment ==
    /\ pc = "add_payment"
    /\ \E add_payment \in TypedAnswer :
          IF add_payment \in {"yes", "y"}
          THEN pc' = "payment" /\ UNCHANGED monthly_payment
          ELSE IF add_payment \in {"no", "n"}
          THEN pc' = "call" /\ monthly_payment' = 0
          ELSE UNCHANGED <<pc, monthly_payment>>
    /\ UNCHANGED <<frame, principal, annual_rate_percent, years, year_list,
                   balance_list, scenarios, rounds, memo>>

\* lines 108-109
Main_Payment ==
    /\ pc = "payment"
    /\ \E t \in TypedPayment :
          LET r == GetFloatInput(t)
          IN  IF r.accepted
              THEN monthly_payment' = r.value /\ pc' = "call"
              ELSE UNCHANGED <<monthly_payment, pc>>
    /\ UNCHANGED <<frame, principal, annual_rate_percent, years, year_list,
                   balance_list, scenarios, rounds, memo>>

\* line 117: the call, compounds_per_year left to its default
Main_Call ==
    /\ pc = "call"
    /\ frame' = Enter(principal, annual_rate_percent, years, monthly_payment,
                      DefaultCompounds)
    /\ pc' = "in_calc"
    /\ UNCHANGED <<principal, annual_rate_percent, years, monthly_payment,
                   year_list, balance_list, scenarios, rounds, memo>>

\* line 117: the assignment of the result
Main_Return ==
    /\ pc = "in_calc"
    /\ frame.cpc = "return"
    /\ year_list' = IF frame.ret.none THEN PyNone
                    ELSE PyList(frame.ret.year_list)
    /\ balance_list' = IF frame.ret.none THEN PyNone
                       ELSE PyList(frame.ret.balances)
    /\ frame' = NoFrame
    /\ pc' = "store"
    /\ UNCHANGED <<principal, annual_rate_percent, years, monthly_payment,
                   scenarios, rounds, memo>>

\* f"{x:,.0f}": x to the nearest integer, "inf" for an infinity
Format0(x) == IF x = Inf THEN Inf ELSE RoundNearestEven(x, One)

\* lines 123-125: the label, as the values its text is made of
Label(p, r, y, m) ==
    [P |-> Format0(p), r |-> r, Yrs |-> y,
     has_pmt |-> FLt(0, m), PMT |-> IF FLt(0, m) THEN Format0(m) ELSE 0]

\* lines 126-131
Scenario(yl, bl, p, r, y, m) ==
    [years |-> yl, balances |-> bl, label |-> Label(p, r, y, m),
     final_balance |-> bl[Len(bl)]]

\* lines 119-132
Main_Store ==
    /\ pc = "store"
    /\ scenarios' =
          IF year_list.none THEN scenarios
          ELSE Append(scenarios,
                      Scenario(year_list.items, balance_list.items, principal,
                               annual_rate_percent, years, monthly_payment))
    /\ rounds' = rounds + 1
    /\ pc' = "another"
    /\ UNCHANGED <<frame, principal, annual_rate_percent, years,
                   monthly_payment, year_list, balance_list, memo>>

\* lines 136-144; the user stops after MaxRounds scenarios
Main_Another ==
    /\ pc = "another"
    /\ \E another \in IF rounds < MaxRounds THEN TypedAnswer
                       ELSE TypedAnswer \ {"yes", "y"} :
          IF another \in {"yes", "y"}
          THEN pc' = "principal"
          ELSE IF another \in {"no", "n"}
          THEN pc' = "plot"
          ELSE UNCHANGED pc
    /\ UNCHANGED <<frame, principal, annual_rate_percent, years,
                   monthly_payment, year_list, balance_list, scenarios,
                   rounds, memo>>

\* x goes before the first element whose key is smaller than x's
RECURSIVE InsertDescending(_, _)
InsertDescending(sorted, x) ==
    IF sorted = <<>> THEN <<x>>
    ELSE IF FLt(Head(sorted).final_balance, x.final_balance)
         THEN <<x>> \o sorted
         ELSE <<Head(sorted)>> \o InsertDescending(Tail(sorted), x)

\* a stable sort by final_balance, highest first
RECURSIVE SortDescending(_)
SortDescending(s) ==
    IF s = <<>> THEN <<>>
    ELSE InsertDescending(SortDescending(SubSeq(s, 1, Len(s) - 1)),
                          s[Len(s)])

\* the orders of 1..n
Orders(n) == {p \in [1..n -> 1..n] : \A i, j \in 1..n : p[i] = p[j] => i = j}

\* line 155: scenarios.sort(key=..., reverse=True).  The sort compares the
\* keys with <; with a NaN among them the comparisons are inconsistent and
\* the resulting order is unspecified
SortOutcomes(s) ==
    IF \E i \in 1..Len(s) : IsNaN(s[i].final_balance)
    THEN {[i \in 1..Len(s) |-> s[p[i]]] : p \in Orders(Len(s))}
    ELSE {SortDescending(s)}

\* lines 147-159
Main_Plot ==
    /\ pc = "plot"
    /\ IF scenarios = <<>>
       THEN pc' = "exit" /\ UNCHANGED scenarios
       ELSE pc' = "shown" /\ scenarios' \in SortOutcomes(scenarios)
    /\ UNCHANGED <<frame, principal, annual_rate_percent, years,
                   monthly_payment, year_list, balance_list, rounds, memo>>

Main ==
    \/ Main_Principal
    \/ Main_Rate
    \/ Main_Years
    \/ Main_AddPayment
    \/ Main_Payment
    \/ Main_Call
    \/ Main_Return
    \/ Main_Store
    \/ Main_Another
    \/ Main_Plot

Next == Main \/ Calc

Spec == Init /\ [][Next]_vars

\* ------------------------------------------------------------------------
\* Properties of calculate_compound_interest (checked under SpecCalc)
\* ------------------------------------------------------------------------
Returned == frame.cpc = "return"

\* not negative (a NaN is neither negative nor non-negative)
NonNegative(x) == FLe(0, x)

ValidArgs(f) ==
    /\ NonNegative(f.principal)
    /\ NonNegative(f.annual_rate_percent)
    /\ NonNegative(f.monthly_payment)
    /\ f.years >= 0
    /\ f.compounds_per_year >= 1

FiniteArgs(f) ==
    /\ IsFinite(f.principal)
    /\ IsFinite(f.annual_rate_percent)
    /\ IsFinite(f.monthly_payment)

\* C1: the call returns (None, None), with no balance recorded and no
\* compounding step executed, exactly when principal < 0, rate < 0,
\* years < 0, monthly_payment < 0 or compounds_per_year <= 0
C1_Rejection ==
    Returned =>
        /\ frame.ret.none <=>
              \/ FLt(frame.principal, 0)
              \/ FLt(frame.annual_rate_percent, 0)
              \/ frame.years < 0
              \/ FLt(frame.monthly_payment, 0)
              \/ frame.compounds_per_year <= 0
        /\ frame.ret.none =>
              /\ frame.yearly_balances = <<>>
              /\ frame.periods_calculated = 0
              /\ frame.ret.balances = <<>>

C1_Witness ==
    /\ Returned
    /\ frame.ret.none
    /\ frame.compounds_per_year = 0
    /\ NonNegative(frame.principal)
    /\ frame.years >= 1

\* C2: for valid inputs the result has years + 1 balances and the year list
\* is exactly [0, ..., years]; years = 0 gives [0] and [principal]
C2_Lengths ==
    (Returned /\ ValidArgs(frame)) =>
        /\ ~frame.ret.none
        /\ Len(frame.ret.balances) = frame.years + 1
        /\ Len(frame.ret.year_list) = frame.years + 1
        /\ \A i \in 1..Len(frame.ret.year_list) :
              frame.ret.year_list[i] = i - 1
        /\ frame.years = 0 =>
              /\ frame.ret.year_list = <<0>>
              /\ frame.ret.balances = <<frame.principal>>

C2_Witness ==
    /\ Returned
    /\ ValidArgs(frame)
    /\ frame.years = MaxYears
    /\ frame.compounds_per_year >= 2
    /\ Len(frame.ret.balances) = MaxYears + 1

\* n times b := b + b * rate + payment
RECURSIVE Compound(_, _, _, _)
Compound(b, rate, payment, n) ==
    IF n = 0 THEN b
    ELSE Compound(FAdd(FAdd(b, FMul(b, rate)), payment), rate, payment, n - 1)

\* C3: for valid inputs with years >= 1 each balance is the one before it
\* after exactly compounds_per_year steps b := b + b * rate_per_period +
\* monthly_payment, the last year included, and years * compounds_per_year
\* steps are executed in total
C3_YearSteps ==
    (Returned /\ ValidArgs(frame) /\ frame.years >= 1) =>
        /\ frame.periods_calculated = frame.years * frame.compounds_per_year
        /\ Len(frame.ret.balances) = frame.years + 1
        /\ \A i \in 1..frame.years :
              frame.ret.balances[i + 1] =
                  Compound(frame.ret.balances[i], frame.rate_per_period,
                           frame.monthly_payment, frame.compounds_per_year)

C3_Witness ==
    /\ Returned
    /\ ValidArgs(frame)
    /\ frame.years >= 2
    /\ frame.compounds_per_year >= 2
    /\ FLt(0, frame.rate_per_period)
    /\ FLt(0, frame.monthly_payment)
    /\ FLt(frame.ret.balances[1], frame.ret.balances[2])
    /\ FLt(frame.ret.balances[2], frame.ret.balances[3])

\* C4: for valid inputs the first balance is the principal itself
C4_FirstBalance ==
    (Returned /\ ValidArgs(frame)) =>
        /\ Len(frame.ret.balances) >= 1
        /\ FEq(frame.ret.balances[1], frame.principal)

C4_Witness ==
    /\ Returned
    /\ ValidArgs(frame)
    /\ frame.years >= 1
    /\ FLt(0, frame.principal)
    /\ FLt(0, frame.rate_per_period)
    /\ FLt(frame.principal, frame.current_balance)
    /\ FEq(frame.ret.balances[1], frame.principal)

\* C5: for valid (finite) inputs the balances never decrease when the rate
\* or the payment is positive, and all equal the principal when both are 0
C5_Monotonic ==
    (Returned /\ ValidArgs(frame) /\ FiniteArgs(frame)) =>
        /\ (FLt(0, frame.annual_rate_percent) \/ FLt(0, frame.monthly_payment))
              => \A i \in 1..(Len(frame.ret.balances) - 1) :
                    FLe(frame.ret.balances[i], frame.ret.balances[i + 1])
        /\ (FEq(frame.annual_rate_percent, 0) /\ FEq(frame.monthly_payment, 0))
              => \A i \in 1..Len(frame.ret.balances) :
                    FEq(frame.ret.balances[i], frame.principal)

\* the closed form principal + n * payment, evaluated in floats
ClosedForm(p, n, payment) == FAdd(p, FMul(IntToFloat(n), payment))

\* C9 as claimed: with a zero rate balances[i] == principal + i *
\* compounds_per_year * monthly_payment for every i (stated for the inputs
\* whose last closed-form value is still finite, where overflow plays no part)
C9_ClosedForm ==
    ( /\ Returned
      /\ ValidArgs(frame)
      /\ FEq(frame.annual_rate_percent, 0)
      /\ IsFinite(frame.principal)
      /\ IsFinite(frame.monthly_payment)
      /\ frame.principal + frame.total_periods * frame.monthly_payment
            <= MaxFin ) =>
        /\ frame.rate_per_period = 0
        /\ \A i \in 0..frame.years :
              FEq(frame.ret.balances[i + 1],
                  ClosedForm(frame.principal, i * frame.compounds_per_year,
                             frame.monthly_payment))

\* every partial sum principal + k * payment is a float
ExactSums(f) ==
    /\ IsFinite(f.principal)
    /\ IsFinite(f.monthly_payment)
    /\ \A k \in 0..(f.years * f.compounds_per_year) :
          Representable(f.principal + k * f.monthly_payment)

\* C9 as amended: with a zero rate the per-period rate is 0 and, when the
\* partial sums principal + k * monthly_payment are all exactly representable,
\* balances[i] is exactly principal + i * compounds_per_year * monthly_payment
C9_ClosedFormExact ==
    ( /\ Returned
      /\ ValidArgs(frame)
      /\ FEq(frame.annual_rate_percent, 0) ) =>
        /\ frame.rate_per_period = 0
        /\ ExactSums(frame) =>
              \A i \in 0..frame.years :
                  frame.ret.balances[i + 1] =
                      frame.principal
                        + i * frame.compounds_per_year * frame.monthly_payment

C9_Witness ==
    /\ Returned
    /\ ValidArgs(frame)
    /\ FEq(frame.annual_rate_percent, 0)
    /\ ExactSums(frame)
    /\ FLt(0, frame.monthly_payment)
    /\ frame.years >= 2
    /\ frame.compounds_per_year = 1
    /\ frame.ret.balances[3] = frame.principal + 2 * frame.monthly_payment

Reordered(before, after, p) ==
    /\ Len(after) = Len(before)
    /\ \A i \in 1..Len(after) : after[i] = before[p[i]]

\* C6: the scenarios handed to the renderer are the collected ones, ordered
\* by final_balance descending, equal final balances in the order of entry
C6_Ranking ==
    [][(pc = "plot" /\ pc' = "shown") =>
          \E p \in Orders(Len(scenarios)) :
              /\ Reordered(scenarios, scenarios', p)
              /\ \A i, j \in 1..Len(scenarios) :
                    i < j =>
                      /\ FLe(scenarios'[j].final_balance,
                             scenarios'[i].final_balance)
                      /\ FEq(scenarios'[j].final_balance,
                             scenarios'[i].final_balance) => p[i] < p[j]
      ]_vars

\* C6 where no final balance is a NaN: the ranking is as claimed
C6_RankingWithoutNaN ==
    [][(/\ pc = "plot"
        /\ pc' = "shown"
        /\ \A k \in 1..Len(scenarios) : ~IsNaN(scenarios[k].final_balance)) =>
          \E p \in Orders(Len(scenarios)) :
              /\ Reordered(scenarios, scenarios', p)
              /\ \A i, j \in 1..Len(scenarios) :
                    i < j =>
                      /\ FLe(scenarios'[j].final_balance,
                             scenarios'[i].final_balance)
                      /\ FEq(scenarios'[j].final_balance,
                             scenarios'[i].final_balance) => p[i] < p[j]
      ]_vars

\* the label of the scenario entered last
LastLabel == Label(principal, annual_rate_percent, years, monthly_payment)

\* a ranking that moved the scenario entered last to the front
C6_MovedWitness ==
    /\ pc = "shown"
    /\ Len(scenarios) = 2
    /\ FLt(scenarios[2].final_balance, scenarios[1].final_balance)
    /\ scenarios[1].label = LastLabel
    /\ scenarios[2].label # LastLabel

\* a ranking that kept two scenarios of equal final balance in entry order
C6_TieWitness ==
    /\ pc = "shown"
    /\ Len(scenarios) = 2
    /\ FEq(scenarios[1].final_balance, scenarios[2].final_balance)
    /\ scenarios[2].label = LastLabel
    /\ scenarios[1].label # LastLabel

\* C7: a scenario whose projection fails is not added, the collected
\* scenarios are unchanged, and the loop goes on.  No behaviour of main
\* reaches the premise (see C10), so this holds of none of them in earnest
C7_SkipFailed ==
    [][(pc = "store" /\ year_list.none) =>
          (scenarios' = scenarios /\ pc' = "another")]_vars

\* C10: the inputs main reads are never negative, it calls the projection
\* with compounds_per_year = 12, no call returns the error result, and after
\* n passes of the loop n scenarios are recorded, each with final_balance the
\* last of its balances
C10_AllRecorded ==
    /\ NonNegative(principal)
    /\ NonNegative(annual_rate_percent)
    /\ years >= 0
    /\ NonNegative(monthly_payment)
    /\ frame.cpc # "none" => frame.compounds_per_year = DefaultCompounds
    /\ frame.cpc = "return" => ~frame.ret.none
    /\ pc = "store" => ~year_list.none
    /\ pc \in {"another", "principal", "plot", "shown"} =>
          Len(scenarios) = rounds
    /\ pc # "exit"
    /\ \A i \in 1..Len(scenarios) :
          /\ Len(scenarios[i].balances) >= 1
          /\ scenarios[i].final_balance =
                scenarios[i].balances[Len(scenarios[i].balances)]

C10_Witness ==
    /\ pc = "shown"
    /\ rounds = MaxRounds
    /\ Len(scenarios) = MaxRounds
    /\ \E i \in 1..Len(scenarios) : Len(scenarios[i].balances) >= 2

====
